---- MODULE Spec2Model ----
(***************************************************************************)
(* A model of the go-cryptomus client: the signer (signRequest,            *)
(* VerifySign), the request dispatcher (fetch, joinURL) and the domain     *)
(* operations built on it (CreateRecurrence, GetRecurrenceInfo,            *)
(* ListRecurrences, CancelRecurrence, ListExchangeRates).                  *)
(*                                                                         *)
(* Strings that reach the wire are sequences of byte values (ASCII codes), *)
(* so that serialisation, base64 and concatenation are computed, not       *)
(* assumed.  The source tree holds several revisions of fetch and of       *)
(* ListExchangeRates; the variable rev says which ones are compiled in.    *)
(***************************************************************************)
EXTENDS Integers, Sequences, FiniteSets, TLC

(***************************************************************************)
(* Byte strings                                                            *)
(***************************************************************************)

\* Concatenation of a sequence of byte strings.
RECURSIVE Concat(_)
Concat(ss) == IF ss = <<>> THEN <<>> ELSE Head(ss) \o Concat(Tail(ss))

\* Bytewise lexicographic order, as Go compares strings (sort.Strings).
RECURSIVE StrLess(_, _)
StrLess(s, t) ==
    IF t = <<>> THEN FALSE
    ELSE IF s = <<>> THEN TRUE
    ELSE IF Head(s) # Head(t) THEN Head(s) < Head(t)
    ELSE StrLess(Tail(s), Tail(t))

\* The elements of a finite set of byte strings in increasing order.
RECURSIVE SortStrings(_)
SortStrings(S) ==
    IF S = {} THEN <<>>
    ELSE LET m == CHOOSE x \in S : \A y \in S \ {x} : StrLess(x, y)
         IN  <<m>> \o SortStrings(S \ {m})

\* strings.TrimSpace on the byte strings of the model (space is 32).
RECURSIVE TrimLeft(_)
TrimLeft(s) == IF s # <<>> /\ Head(s) = 32 THEN TrimLeft(Tail(s)) ELSE s

RECURSIVE TrimRight(_)
TrimRight(s) ==
    IF s # <<>> /\ s[Len(s)] = 32 THEN TrimRight(SubSeq(s, 1, Len(s) - 1)) ELSE s

TrimSpace(s) == TrimRight(TrimLeft(s))

(***************************************************************************)
(* The string literals of the source and of the inputs, as ASCII bytes.     *)
(***************************************************************************)
s_sign == <<115, 105, 103, 110>>   \* sign
s_uuid == <<117, 117, 105, 100>>   \* uuid
s_name == <<110, 97, 109, 101>>   \* name
s_order_id == <<111, 114, 100, 101, 114, 95, 105, 100>>   \* order_id
s_amount == <<97, 109, 111, 117, 110, 116>>   \* amount
s_currency == <<99, 117, 114, 114, 101, 110, 99, 121>>   \* currency
s_payer_currency == <<112, 97, 121, 101, 114, 95, 99, 117, 114, 114, 101, 110, 99, 121>>   \* payer_currency
s_payer_amount_usd == <<112, 97, 121, 101, 114, 95, 97, 109, 111, 117, 110, 116, 95, 117, 115, 100>>   \* payer_amount_usd
s_payer_amount == <<112, 97, 121, 101, 114, 95, 97, 109, 111, 117, 110, 116>>   \* payer_amount
s_url_callback == <<117, 114, 108, 95, 99, 97, 108, 108, 98, 97, 99, 107>>   \* url_callback
s_period == <<112, 101, 114, 105, 111, 100>>   \* period
s_status == <<115, 116, 97, 116, 117, 115>>   \* status
s_url == <<117, 114, 108>>   \* url
s_last_pay_off == <<108, 97, 115, 116, 95, 112, 97, 121, 95, 111, 102, 102>>   \* last_pay_off
s_discount_days == <<100, 105, 115, 99, 111, 117, 110, 116, 95, 100, 97, 121, 115>>   \* discount_days
s_discount_amount == <<100, 105, 115, 99, 111, 117, 110, 116, 95, 97, 109, 111, 117, 110, 116>>   \* discount_amount
s_end_of_discount == <<101, 110, 100, 95, 111, 102, 95, 100, 105, 115, 99, 111, 117, 110, 116>>   \* end_of_discount
s_additional_data == <<97, 100, 100, 105, 116, 105, 111, 110, 97, 108, 95, 100, 97, 116, 97>>   \* additional_data
s_to_currency == <<116, 111, 95, 99, 117, 114, 114, 101, 110, 99, 121>>   \* to_currency
s_items == <<105, 116, 101, 109, 115>>   \* items
s_paginate == <<112, 97, 103, 105, 110, 97, 116, 101>>   \* paginate
s_count == <<99, 111, 117, 110, 116>>   \* count
s_hasPages == <<104, 97, 115, 80, 97, 103, 101, 115>>   \* hasPages
s_nextCursor == <<110, 101, 120, 116, 67, 117, 114, 115, 111, 114>>   \* nextCursor
s_previousCursor == <<112, 114, 101, 118, 105, 111, 117, 115, 67, 117, 114, 115, 111, 114>>   \* previousCursor
s_perPage == <<112, 101, 114, 80, 97, 103, 101>>   \* perPage
s_from_ == <<102, 114, 111, 109>>   \* from
s_to == <<116, 111>>   \* to
s_course == <<99, 111, 117, 114, 115, 101>>   \* course
s_state == <<115, 116, 97, 116, 101>>   \* state
s_result == <<114, 101, 115, 117, 108, 116>>   \* result
s_errors == <<101, 114, 114, 111, 114, 115>>   \* errors
s_message == <<109, 101, 115, 115, 97, 103, 101>>   \* message
s_cursor == <<99, 117, 114, 115, 111, 114>>   \* cursor
s_null == <<110, 117, 108, 108>>   \* null
s_true == <<116, 114, 117, 101>>   \* true
s_false == <<102, 97, 108, 115, 101>>   \* false
s_POST == <<80, 79, 83, 84>>   \* POST
s_GET == <<71, 69, 84>>   \* GET
s_createRecurrenceEndpoint == <<47, 114, 101, 99, 117, 114, 114, 101, 110, 99, 101, 47, 99, 114, 101, 97, 116, 101>>   \* /recurrence/create
s_recurrenceInfoEndpoint == <<47, 114, 101, 99, 117, 114, 114, 101, 110, 99, 101, 47, 105, 110, 102, 111>>   \* /recurrence/info
s_recurrenceListEndpoint == <<47, 114, 101, 99, 117, 114, 114, 101, 110, 99, 101, 47, 108, 105, 115, 116>>   \* /recurrence/list
s_recurrenceCancelEndpoint == <<47, 114, 101, 99, 117, 114, 114, 101, 110, 99, 101, 47, 99, 97, 110, 99, 101, 108>>   \* /recurrence/cancel
s_appJson == <<97, 112, 112, 108, 105, 99, 97, 116, 105, 111, 110, 47, 106, 115, 111, 110>>   \* application/json
s_origin == <<104, 116, 116, 112, 115, 58, 47, 47, 97, 112, 105, 46, 99, 114, 121, 112, 116, 111, 109, 117, 115, 46, 99, 111, 109>>   \* https://api.cryptomus.com
s_v1path == <<47, 118, 49>>   \* /v1
s_exchPrefix1 == <<47, 118, 49, 47, 101, 120, 99, 104, 97, 110, 103, 101, 45, 114, 97, 116, 101, 47>>   \* /v1/exchange-rate/
s_exchPrefix3 == <<101, 120, 99, 104, 97, 110, 103, 101, 45, 114, 97, 116, 101, 47>>   \* exchange-rate/
s_exchSuffix == <<47, 108, 105, 115, 116>>   \* /list
s_k1 == <<107, 49>>   \* k1
s_k2 == <<107, 50>>   \* k2
s_m1 == <<109, 49>>   \* m1
s_u1 == <<117, 49>>   \* u1
s_o1 == <<111, 49>>   \* o1
s_c1 == <<99, 49>>   \* c1
s_r1 == <<114, 49>>   \* r1
s_r2 == <<114, 50>>   \* r2
s_USDT == <<85, 83, 68, 84>>   \* USDT
s_BTC == <<66, 84, 67>>   \* BTC
s_rate == <<48, 46, 48, 48, 48, 48, 49, 53>>   \* 0.000015
s_active == <<97, 99, 116, 105, 118, 101>>   \* active
s_required == <<114, 101, 113, 117, 105, 114, 101, 100>>   \* required
s_msg == <<100, 101, 110, 105, 101, 100>>   \* denied
s_ten == <<49, 48>>   \* 10
s_USD == <<85, 83, 68>>   \* USD
s_plan == <<112, 108, 97, 110>>   \* plan
s_monthly == <<109, 111, 110, 116, 104, 108, 121>>   \* monthly
s_time1 == <<50, 48, 50, 52, 45, 48, 49, 45, 48, 49, 84, 48, 48, 58, 48, 48, 58, 48, 48, 90>>   \* 2024-01-01T00:00:00Z
s_x == <<120>>   \* x
s_y == <<121>>   \* y
s_a == <<97>>   \* a
s_b == <<98>>   \* b
s_lt == <<60>>   \* <
s_local == <<104, 116, 116, 112, 58, 47, 47, 108, 111, 99, 97, 108, 104, 111, 115, 116>>   \* http://localhost
s_slash == <<47>>   \* /

(***************************************************************************)
(* encoding/base64: StdEncoding.EncodeToString                             *)
(***************************************************************************)

\* The ASCII code of the i-th character of the standard alphabet A-Za-z0-9+/.
B64Char(i) ==
    IF i < 26 THEN 65 + i
    ELSE IF i < 52 THEN 97 + (i - 26)
    ELSE IF i < 62 THEN 48 + (i - 52)
    ELSE IF i = 62 THEN 43
    ELSE 47

RECURSIVE EncodeToString(_)
EncodeToString(bs) ==
    IF bs = <<>> THEN <<>>
    ELSE IF Len(bs) = 1 THEN
        <<B64Char(bs[1] \div 4), B64Char((bs[1] % 4) * 16), 61, 61>>
    ELSE IF Len(bs) = 2 THEN
        <<B64Char(bs[1] \div 4),
          B64Char((bs[1] % 4) * 16 + bs[2] \div 16),
          B64Char((bs[2] % 16) * 4), 61>>
    ELSE
        <<B64Char(bs[1] \div 4),
          B64Char((bs[1] % 4) * 16 + bs[2] \div 16),
          B64Char((bs[2] % 16) * 4 + bs[3] \div 64),
          B64Char(bs[3] % 64)>> \o EncodeToString(SubSeq(bs, 4, Len(bs)))

(***************************************************************************)
(* crypto/md5 and encoding/hex.  The digest is idealised: hex(md5(data))   *)
(* is an injective function of data (no collisions), written as the        *)
(* marker byte '#' followed by the hashed bytes.  No non-digest string of  *)
(* the model starts with '#'.                                              *)
(***************************************************************************)
Md5Hex(data) == <<35>> \o data

(***************************************************************************)
(* Errors.  A Go error is a record: kind "none" is the nil error; code is  *)
(* the HTTP status or the state code it reports, text a server message,    *)
(* errors the validation map and cause the transport failure it wraps.     *)
(***************************************************************************)
MkErr(kind, code, text, errors, cause) ==
    [kind |-> kind, code |-> code, text |-> text, errors |-> errors, cause |-> cause]

NoErr == MkErr("none", 0, <<>>, <<>>, "")
Err(kind) == MkErr(kind, 0, <<>>, <<>>, "")

(***************************************************************************)
(* sign.go: signRequest.  c is the receiver; the result is the pair the Go *)
(* function returns.                                                       *)
(***************************************************************************)

\* A variant that signs with the receiver's payment key, not the argument.
signRequestReceiverKey(c, apiKey, reqBody) ==
    IF apiKey = <<>> THEN [sign |-> <<>>, err |-> Err("empty_key")]
    ELSE [sign |-> Md5Hex(EncodeToString(reqBody) \o c.paymentApiKey), err |-> NoErr]

\* A variant without the empty-key check.
signRequestNoKeyCheck(c, apiKey, reqBody) ==
    [sign |-> Md5Hex(EncodeToString(reqBody) \o apiKey), err |-> NoErr]

signRequest(c, apiKey, reqBody) ==
    IF apiKey = <<>> THEN [sign |-> <<>>, err |-> Err("empty_key")]
    ELSE LET data == EncodeToString(reqBody)
         IN  [sign |-> Md5Hex(data \o apiKey), err |-> NoErr]

(***************************************************************************)
(* encoding/json: the encoder                                              *)
(*                                                                         *)
(* A JSON value is a record [k, s, n, m]: k is its type ("str", "num",     *)
(* "null", "bool", "obj", "arr"), s the bytes of a string, n the value of  *)
(* a number or boolean (1 is true), m the members [name, val] of an object *)
(* in the order written, or the elements of an array (with empty names).   *)
(***************************************************************************)
JStr(s) == [k |-> "str", s |-> s, n |-> 0, m |-> <<>>]
JNum(n) == [k |-> "num", s |-> <<>>, n |-> n, m |-> <<>>]
JBool(b) == [k |-> "bool", s |-> <<>>, n |-> IF b THEN 1 ELSE 0, m |-> <<>>]
JNull == [k |-> "null", s |-> <<>>, n |-> 0, m |-> <<>>]
JObj(members) == [k |-> "obj", s |-> <<>>, n |-> 0, m |-> members]
JArr(elems) ==
    [k |-> "arr", s |-> <<>>, n |-> 0,
     m |-> [i \in 1..Len(elems) |-> [name |-> <<>>, val |-> elems[i]]]]
Member(name, val) == [name |-> name, val |-> val]

\* Go's encoder escapes the quote, the backslash and (HTML-safe output) the
\* characters <, > and &.
EscapeByte(b) ==
    IF b = 34 THEN <<92, 34>>
    ELSE IF b = 92 THEN <<92, 92>>
    ELSE IF b = 60 THEN <<92, 117, 48, 48, 51, 99>>
    ELSE IF b = 62 THEN <<92, 117, 48, 48, 51, 101>>
    ELSE IF b = 38 THEN <<92, 117, 48, 48, 50, 54>>
    ELSE <<b>>

EncodeString(s) ==
    <<34>> \o Concat([i \in 1..Len(s) |-> EscapeByte(s[i])]) \o <<34>>

\* strconv: the decimal digits of an integer.
RECURSIVE FormatNat(_)
FormatNat(n) ==
    IF n < 10 THEN <<48 + n>> ELSE FormatNat(n \div 10) \o <<48 + (n % 10)>>

FormatInt(n) == IF n < 0 THEN <<45>> \o FormatNat(0 - n) ELSE FormatNat(n)

\* The bytes of a value; an object's members are written in the order of m.
RECURSIVE EncodeValue(_)
EncodeValue(v) ==
    LET sep(i) == IF i > 1 THEN <<44>> ELSE <<>>
    IN  CASE v.k = "str" -> EncodeString(v.s)
          [] v.k = "num" -> FormatInt(v.n)
          [] v.k = "bool" -> IF v.n = 1 THEN s_true ELSE s_false
          [] v.k = "null" -> s_null
          [] v.k = "obj" ->
               <<123>>
               \o Concat([i \in 1..Len(v.m) |->
                     sep(i) \o EncodeString(v.m[i].name) \o <<58>>
                     \o EncodeValue(v.m[i].val)])
               \o <<125>>
          [] v.k = "arr" ->
               <<91>>
               \o Concat([i \in 1..Len(v.m) |-> sep(i) \o EncodeValue(v.m[i].val)])
               \o <<93>>

(***************************************************************************)
(* encoding/json: Unmarshal into interface{} and Marshal of the result.    *)
(* An object becomes a map[string]interface{}: a function from its names   *)
(* (of two members of one name the later wins), which Marshal writes with  *)
(* the keys sorted.  Nested values are kept as JSON values in that         *)
(* canonical form.                                                         *)
(***************************************************************************)

\* The index of the last member called nm (0 when there is none).
LastIndex(ms, nm) ==
    LET hits == {i \in 1..Len(ms) : ms[i].name = nm}
    IN  IF hits = {} THEN 0 ELSE CHOOSE i \in hits : \A j \in hits : j <= i

RECURSIVE Canon(_)
Canon(v) ==
    CASE v.k = "obj" ->
           LET keys == SortStrings({v.m[i].name : i \in 1..Len(v.m)})
           IN  JObj([i \in 1..Len(keys) |->
                       Member(keys[i], Canon(v.m[LastIndex(v.m, keys[i])].val))])
      [] v.k = "arr" -> JArr([i \in 1..Len(v.m) |-> Canon(v.m[i].val)])
      [] OTHER -> v

\* json.Unmarshal(reqBody, &jsonBody) for an object with members ms.
UnmarshalMap(ms) ==
    [nm \in {ms[i].name : i \in 1..Len(ms)} |-> Canon(ms[LastIndex(ms, nm)].val)]

\* json.Marshal(jsonBody)
MarshalMap(m) ==
    LET keys == SortStrings(DOMAIN m)
    IN  EncodeValue(JObj([i \in 1..Len(keys) |-> Member(keys[i], m[keys[i]])]))

\* delete(m, key)
Delete(m, key) == [nm \in (DOMAIN m) \ {key} |-> m[nm]]

(***************************************************************************)
(* sign.go: VerifySign.  A raw body is [kind, json]: kind "json" with the  *)
(* value received, or "invalid" (not JSON).  The result is the error       *)
(* returned (NoErr for nil).                                               *)
(***************************************************************************)

\* A variant that signs the body as received, 'sign' included.
VerifySignKeepsSign(c, apiKey, raw) ==
    IF raw.kind = "invalid" \/ raw.json.k \notin {"obj", "null"} THEN Err("unmarshal")
    ELSE LET jsonBody == IF raw.json.k = "null" THEN <<>> ELSE UnmarshalMap(raw.json.m)
         IN  IF ~(s_sign \in DOMAIN jsonBody /\ jsonBody[s_sign].k = "str")
             THEN Err("missing_signature")
             ELSE LET expected == signRequest(c, apiKey, MarshalMap(jsonBody))
                  IN  IF expected.err # NoErr THEN Err("sign")
                      ELSE IF jsonBody[s_sign].s # expected.sign
                      THEN Err("invalid_signature")
                      ELSE NoErr

\* A variant that computes the expected signature before it looks for sign.
VerifySignKeyFirst(c, apiKey, raw) ==
    IF raw.kind = "invalid" \/ raw.json.k \notin {"obj", "null"} THEN Err("unmarshal")
    ELSE LET jsonBody == IF raw.json.k = "null" THEN <<>> ELSE UnmarshalMap(raw.json.m)
             expected == signRequest(c, apiKey, MarshalMap(Delete(jsonBody, s_sign)))
         IN  IF expected.err # NoErr THEN Err("sign")
             ELSE IF ~(s_sign \in DOMAIN jsonBody /\ jsonBody[s_sign].k = "str")
             THEN Err("missing_signature")
             ELSE IF jsonBody[s_sign].s # expected.sign THEN Err("invalid_signature")
             ELSE NoErr

VerifySign(c, apiKey, raw) ==
    IF raw.kind = "invalid" \/ raw.json.k \notin {"obj", "null"} THEN Err("unmarshal")
    ELSE LET jsonBody == IF raw.json.k = "null" THEN <<>> ELSE UnmarshalMap(raw.json.m)
         IN  IF ~(s_sign \in DOMAIN jsonBody /\ jsonBody[s_sign].k = "str")
             THEN Err("missing_signature")
             ELSE LET reqSign == jsonBody[s_sign].s
                      modifiedBody == MarshalMap(Delete(jsonBody, s_sign))
                      expected == signRequest(c, apiKey, modifiedBody)
                  IN  IF expected.err # NoErr THEN Err("sign")
                      ELSE IF reqSign # expected.sign THEN Err("invalid_signature")
                      ELSE NoErr

(***************************************************************************)
(* The Go types of the requests and responses.  A type is named as in the  *)
(* source; a struct's fields are [go, json, type, omit] in declaration     *)
(* order (omit: the tag says omitempty).  A pointer, slice or map value is *)
(* [nil, v]; a struct value is a record of its Go field names.             *)
(***************************************************************************)
F(go, json, type, omit) == [go |-> go, json |-> json, type |-> type, omit |-> omit]

Declared(t) ==
    CASE t = "RecurrenceRequest" ->
           << F("Amount", s_amount, "string", FALSE),
              F("Currency", s_currency, "string", FALSE),
              F("Name", s_name, "string", FALSE),
              F("Period", s_period, "string", FALSE),
              F("ToCurrency", s_to_currency, "string", TRUE),
              F("OrderId", s_order_id, "string", TRUE),
              F("UrlCallback", s_url_callback, "string", TRUE),
              F("DiscountDays", s_discount_days, "*int", TRUE),
              F("DiscountAmount", s_discount_amount, "string", TRUE),
              F("AdditionalData", s_additional_data, "string", TRUE) >>
      [] t = "Recurrence" ->
           << F("UUID", s_uuid, "string", FALSE),
              F("Name", s_name, "string", FALSE),
              F("OrderId", s_order_id, "string", FALSE),
              F("Amount", s_amount, "string", FALSE),
              F("Currency", s_currency, "string", FALSE),
              F("PayerCurrency", s_payer_currency, "string", FALSE),
              F("PayerAmountUSD", s_payer_amount_usd, "string", FALSE),
              F("PayerAmount", s_payer_amount, "string", FALSE),
              F("UrlCallback", s_url_callback, "string", FALSE),
              F("Period", s_period, "string", FALSE),
              F("Status", s_status, "string", FALSE),
              F("Url", s_url, "string", FALSE),
              F("LastPayOff", s_last_pay_off, "*time.Time", TRUE),
              F("DiscountDays", s_discount_days, "*int", TRUE),
              F("DiscountAmount", s_discount_amount, "string", TRUE),
              F("EndOfDiscount", s_end_of_discount, "*time.Time", TRUE),
              F("AdditionalData", s_additional_data, "string", TRUE) >>
      [] t \in {"RecurrenceInfoRequest", "RecurrenceCancelRequest"} ->
           << F("UUID", s_uuid, "string", TRUE),
              F("OrderId", s_order_id, "string", TRUE) >>
      [] t = "recurrenceRawResponse" ->
           << F("State", s_state, "int8", FALSE),
              F("Result", s_result, "*Recurrence", FALSE) >>
      [] t \in {"recurrenceInfoRawResponse", "recurrenceCancelRawResponse"} ->
           << F("State", s_state, "int8", FALSE),
              F("Result", s_result, "*Recurrence", TRUE),
              F("Errors", s_errors, "map[string][]string", TRUE) >>
      [] t = "RecurrenceListResponse" ->
           << F("Items", s_items, "[]*Recurrence", FALSE),
              F("Paginate", s_paginate, "*RecurrencePaginate", FALSE) >>
      [] t = "RecurrencePaginate" ->
           << F("Count", s_count, "int", FALSE),
              F("HasPages", s_hasPages, "bool", FALSE),
              F("NextCursor", s_nextCursor, "string", TRUE),
              F("PreviousCursor", s_previousCursor, "string", TRUE),
              F("PerPage", s_perPage, "int", FALSE) >>
      [] t = "recurrenceListRawResponse" ->
           << F("State", s_state, "int", FALSE),
              F("Result", s_result, "*RecurrenceListResponse", FALSE) >>
      [] t = "ExchangeRate" ->
           << F("From", s_from_, "string", FALSE),
              F("To", s_to, "string", FALSE),
              F("Course", s_course, "string", FALSE) >>
      [] t = "exchangeRateListRawResponse" ->
           << F("State", s_state, "int8", FALSE),
              F("Result", s_result, "[]ExchangeRate", FALSE) >>
      [] t = "errResp" ->
           << F("Message", s_message, "string", FALSE) >>

StructTypes ==
    { "RecurrenceRequest", "Recurrence", "RecurrenceInfoRequest",
      "RecurrenceCancelRequest", "recurrenceRawResponse",
      "recurrenceInfoRawResponse", "recurrenceCancelRawResponse",
      "RecurrenceListResponse", "RecurrencePaginate",
      "recurrenceListRawResponse", "ExchangeRate",
      "exchangeRateListRawResponse", "errResp" }

\* The fields of each struct type, in the order of their declaration.
Fields == [t \in StructTypes |-> Declared(t)]

BasicTypes == {"string", "int", "int8", "bool", "time.Time"}
PtrTypes ==
    { "*Recurrence", "*RecurrenceListResponse", "*RecurrencePaginate",
      "*time.Time", "*int", "*RecurrenceRequest", "*RecurrenceInfoRequest",
      "*RecurrenceCancelRequest" }
SliceTypes == {"[]*Recurrence", "[]ExchangeRate", "[]string"}
MapTypes == {"map[string][]string"}
Types == BasicTypes \cup PtrTypes \cup SliceTypes \cup MapTypes \cup StructTypes

\* What kind of type t is.
Classes ==
    [t \in Types |->
        CASE t \in BasicTypes -> t
          [] t \in PtrTypes -> "ptr"
          [] t \in SliceTypes -> "slice"
          [] t \in MapTypes -> "map"
          [] t \in StructTypes -> "struct"]

Class(t) == Classes[t]

\* The type a pointer points to, or of the elements of a slice or map.
Elems ==
    [t \in PtrTypes \cup SliceTypes \cup MapTypes |->
        CASE t = "*Recurrence" -> "Recurrence"
          [] t = "*RecurrenceListResponse" -> "RecurrenceListResponse"
          [] t = "*RecurrencePaginate" -> "RecurrencePaginate"
          [] t = "*time.Time" -> "time.Time"
          [] t = "*int" -> "int"
          [] t = "*RecurrenceRequest" -> "RecurrenceRequest"
          [] t = "*RecurrenceInfoRequest" -> "RecurrenceInfoRequest"
          [] t = "*RecurrenceCancelRequest" -> "RecurrenceCancelRequest"
          [] t = "[]*Recurrence" -> "*Recurrence"
          [] t = "[]ExchangeRate" -> "ExchangeRate"
          [] t = "[]string" -> "string"
          [] t = "map[string][]string" -> "[]string"]

Elem(t) == Elems[t]

\* The fields of each struct type by their Go names.
FieldIndex ==
    [t \in StructTypes |->
        LET fs == Fields[t]
        IN  [g \in {fs[i].go : i \in 1..Len(fs)} |->
                fs[CHOOSE i \in 1..Len(fs) : fs[i].go = g]]]

\* The field of struct type t whose Go name is g.
FieldOf(t, g) == FieldIndex[t][g]

GoNames(t) == DOMAIN FieldIndex[t]

\* The zero value of a type.
RECURSIVE ZeroValue(_)
ZeroValue(t) ==
    CASE Class(t) \in {"string", "time.Time"} -> <<>>
      [] Class(t) \in {"int", "int8"} -> 0
      [] Class(t) = "bool" -> FALSE
      [] Class(t) = "ptr" -> [nil |-> TRUE, v |-> ZeroValue(Elem(t))]
      [] Class(t) \in {"slice", "map"} -> [nil |-> TRUE, v |-> <<>>]
      [] Class(t) = "struct" -> [g \in GoNames(t) |-> ZeroValue(FieldOf(t, g).type)]

Zeros == [t \in Types |-> ZeroValue(t)]

Zero(t) == Zeros[t]

(***************************************************************************)
(* encoding/json: Decode into a typed value.  The result is [ok, val]: ok  *)
(* is FALSE when Decode returns an error (the JSON value does not have the *)
(* shape of the type, or a number overflows it).  A JSON null leaves the   *)
(* target unchanged (zero); a member the struct does not declare is        *)
(* skipped; an absent member leaves the field zero.                        *)
(***************************************************************************)

\* The timestamps time.Time's UnmarshalJSON accepts, among the model's strings.
ValidTimes == {s_time1}

\* The parts of the value j that are decoded in turn, each with its type:
\* what a pointer points to, the elements of an array, the values of an
\* object's names (sorted here), or the fields of a struct.  An absent
\* member leaves its field as a null does.
Part(t, j) == [t |-> t, j |-> j]

Parts(t, j) ==
    LET cls == Class(t)
    IN  CASE cls = "ptr" -> <<Part(Elem(t), j)>>
          [] cls = "slice" /\ j.k = "arr" ->
               [i \in 1..Len(j.m) |-> Part(Elem(t), j.m[i].val)]
          [] cls = "map" /\ j.k = "obj" ->
               LET names == SortStrings({j.m[i].name : i \in 1..Len(j.m)})
               IN  [i \in 1..Len(names) |->
                      Part(Elem(t), j.m[LastIndex(j.m, names[i])].val)]
          [] cls = "struct" /\ j.k = "obj" ->
               LET fs == Fields[t]
               IN  [i \in 1..Len(fs) |->
                      LET at == LastIndex(j.m, fs[i].json)
                      IN  Part(fs[i].type, IF at = 0 THEN JNull ELSE j.m[at].val)]
          [] OTHER -> <<>>

\* The value of type t made of the decoded parts vs of j.
Assemble(t, j, vs) ==
    LET cls == Class(t)
    IN  CASE cls = "ptr" -> [nil |-> FALSE, v |-> vs[1]]
          [] cls = "slice" -> [nil |-> FALSE, v |-> vs]
          [] cls = "map" ->
               LET names == SortStrings({j.m[i].name : i \in 1..Len(j.m)})
               IN  [nil |-> FALSE,
                    v |-> [nm \in {names[i] : i \in 1..Len(names)} |->
                             vs[CHOOSE i \in 1..Len(names) : names[i] = nm]]]
          [] cls = "struct" ->
               LET fs == Fields[t]
               IN  [g \in GoNames(t) |-> vs[CHOOSE i \in 1..Len(fs) : fs[i].go = g]]

\* Whether the JSON value j has the shape of type t.
Fits(t, j) ==
    LET cls == Class(t)
    IN  CASE cls = "string" -> j.k = "str"
          [] cls = "time.Time" -> j.k = "str" /\ j.s \in ValidTimes
          [] cls = "int8" -> j.k = "num" /\ j.n >= -128 /\ j.n <= 127
          [] cls = "int" -> j.k = "num"
          [] cls = "bool" -> j.k = "bool"
          [] cls = "ptr" -> TRUE
          [] cls = "slice" -> j.k = "arr"
          [] cls \in {"map", "struct"} -> j.k = "obj"

\* The value of a basic type.
Basic(t, j) ==
    CASE Class(t) \in {"string", "time.Time"} -> j.s
      [] Class(t) \in {"int", "int8"} -> j.n
      [] Class(t) = "bool" -> (j.n = 1)

\* The result of decoding j into type t once its parts are decoded (ds).
Decoded(t, j, ds) ==
    [ok |-> \A i \in 1..Len(ds) : ds[i].ok,
     val |-> Assemble(t, j, [i \in 1..Len(ds) |-> ds[i].val])]

RECURSIVE DecodeInto(_, _)

DecodeParts(parts) == [i \in 1..Len(parts) |-> DecodeInto(parts[i].t, parts[i].j)]

DecodeInto(t, j) ==
    IF j.k = "null" \/ ~Fits(t, j) THEN [ok |-> j.k = "null", val |-> Zero(t)]
    ELSE IF t \in BasicTypes THEN [ok |-> TRUE, val |-> Basic(t, j)]
    ELSE Decoded(t, j, DecodeParts(Parts(t, j)))

\* json.NewDecoder(res.Body).Decode(&v) for a response body [kind, json].
Decode(t, body) ==
    IF body.kind = "invalid" THEN [ok |-> FALSE, val |-> Zero(t)]
    ELSE DecodeInto(t, body.json)

(***************************************************************************)
(* encoding/json: Marshal of a request struct.  A field tagged omitempty   *)
(* is left out when it is the empty string or a nil pointer.               *)
(***************************************************************************)
ToJSON(t, v) ==
    CASE Class(t) = "string" -> JStr(v)
      [] Class(t) = "int" -> JNum(v)
      [] Class(t) = "ptr" -> IF v.nil THEN JNull ELSE JNum(v.v)

IsEmpty(t, v) == IF Class(t) = "ptr" THEN v.nil ELSE v = Zero(t)

MarshalStruct(t, v) ==
    LET fs == Fields[t]
        kept == SelectSeq(fs, LAMBDA f : ~(f.omit /\ IsEmpty(f.type, v[f.go])))
    IN  EncodeValue(JObj([i \in 1..Len(kept) |->
                            Member(kept[i].json, ToJSON(kept[i].type, v[kept[i].go]))]))

(***************************************************************************)
(* path.Join and net/url.  A base URL is [ok, origin, path]: the string    *)
(* is origin \o path, origin is its scheme and host, and ok says whether   *)
(* url.Parse accepts it.                                                   *)
(***************************************************************************)

\* The pieces of p between slashes (byte 47).
RECURSIVE Split(_)
Split(p) ==
    IF \A i \in 1..Len(p) : p[i] # 47 THEN <<p>>
    ELSE LET at == CHOOSE i \in 1..Len(p) :
                       p[i] = 47 /\ \A j \in 1..(i - 1) : p[j] # 47
         IN  <<SubSeq(p, 1, at - 1)>> \o Split(SubSeq(p, at + 1, Len(p)))

\* path.Clean: the stack of elements left after dropping empty elements and
\* ".", and resolving "..".
RECURSIVE CleanStack(_, _, _)
CleanStack(segs, stack, rooted) ==
    IF segs = <<>> THEN stack
    ELSE LET e == Head(segs)
             next ==
                 IF e = <<>> \/ e = <<46>> THEN stack
                 ELSE IF e = <<46, 46>> THEN
                     IF stack # <<>> /\ stack[Len(stack)] # <<46, 46>>
                     THEN SubSeq(stack, 1, Len(stack) - 1)
                     ELSE IF rooted THEN stack ELSE Append(stack, e)
                 ELSE Append(stack, e)
         IN  CleanStack(Tail(segs), next, rooted)

Clean(p) ==
    IF p = <<>> THEN <<46>>
    ELSE LET rooted == p[1] = 47
             stack == CleanStack(Split(p), <<>>, rooted)
             out == (IF rooted THEN <<47>> ELSE <<>>)
                    \o Concat([i \in 1..Len(stack) |->
                                 (IF i > 1 THEN <<47>> ELSE <<>>) \o stack[i]])
         IN  IF out = <<>> THEN <<46>> ELSE out

\* path.Join(a, b): empty elements are ignored, the rest joined and cleaned.
PathJoin(a, b) ==
    IF a = <<>> /\ b = <<>> THEN <<>>
    ELSE IF a = <<>> THEN Clean(b)
    ELSE IF b = <<>> THEN Clean(a)
    ELSE Clean(a \o <<47>> \o b)

\* URL.EscapedPath on the bytes of the model: a space is written %20.
EscapePath(p) ==
    Concat([i \in 1..Len(p) |-> IF p[i] = 32 THEN <<37, 50, 48>> ELSE <<p[i]>>])

\* URL.String() of a URL with this origin and path: a path that does not
\* start with a slash gets one after the host, when there is a host.
URLString(origin, path) ==
    origin
    \o (IF path # <<>> /\ path[1] # 47 /\ origin # <<>> THEN <<47>> ELSE <<>>)
    \o EscapePath(path)

\* The index of the first byte b of s from index i on (0 when there is none).
IndexFrom(s, b, i) ==
    LET hits == {j \in i..Len(s) : s[j] = b}
    IN  IF hits = {} THEN 0 ELSE CHOOSE j \in hits : \A k \in hits : j <= k

\* url.Parse of a base URL string, for the strings of the model: a string
\* that starts with a colon has no scheme and is rejected; one with
\* scheme://host has its path from the first slash after the host; one
\* with no colon is a path.
ParseURL(s) ==
    LET colon == IndexFrom(s, 58, 1)
        slash == IndexFrom(s, 47, colon + 3)
    IN  IF colon = 1 THEN [ok |-> FALSE, origin |-> s, path |-> <<>>]
        ELSE IF colon = 0 THEN [ok |-> TRUE, origin |-> <<>>, path |-> s]
        ELSE IF slash = 0 THEN [ok |-> TRUE, origin |-> s, path |-> <<>>]
        ELSE [ok |-> TRUE, origin |-> SubSeq(s, 1, slash - 1),
              path |-> SubSeq(s, slash, Len(s))]

\* The string of a base URL.
URLBytes(base) == base.origin \o base.path

\* A variant of joinURL that drops the base's path.
joinURLDropsBase(base, endpoint) ==
    IF ~base.ok THEN [ok |-> FALSE, url |-> <<>>]
    ELSE [ok |-> TRUE, url |-> URLString(base.origin, PathJoin(<<>>, endpoint))]

\* cryptomus.go (second revision): joinURL.  The result is [ok, url].
joinURL(base, endpoint) ==
    IF ~base.ok THEN [ok |-> FALSE, url |-> <<>>]
    ELSE [ok |-> TRUE, url |-> URLString(base.origin, PathJoin(base.path, endpoint))]

(***************************************************************************)
(* The transport.  What c.client.Do returns is an outcome [kind, cause,    *)
(* status, body]: kind "error" with its cause, or "http" with the status   *)
(* code and the body [kind, json]; "none" when Do is not called.           *)
(***************************************************************************)
NoBody == [kind |-> "invalid", json |-> JNull]
NoOutcome == [kind |-> "none", cause |-> "", status |-> 0, body |-> NoBody]
DoError(cause) == [kind |-> "error", cause |-> cause, status |-> 0, body |-> NoBody]
DoResponse(status, body) == [kind |-> "http", cause |-> "", status |-> status, body |-> body]

\* A request as handed to the transport.
Request(method, url, header, body) ==
    [method |-> method, url |-> url, header |-> header, body |-> body]

\* The headers fetch sets.
FetchHeader(c, sign) ==
    [h \in {"Content-Type", "merchant", "sign"} |->
        CASE h = "Content-Type" -> s_appJson
          [] h = "merchant" -> c.merchantID
          [] h = "sign" -> sign]

(***************************************************************************)
(* fetch.  payload is [nil, json]: a nil interface, or a value and the     *)
(* bytes json.Marshal gives for it.  The operators below are fetch up to   *)
(* the call of the transport: their result is [err, sent], the error       *)
(* returned before the transport is called, or the request handed to it.   *)
(***************************************************************************)
Sent(req) == [err |-> NoErr, sent |-> <<req>>]
NotSent(kind) == [err |-> Err(kind), sent |-> <<>>]

NilPayload == [nil |-> TRUE, json |-> <<>>]
Payload(json) == [nil |-> FALSE, json |-> json]

\* cryptomus.go, first revision: the payload is always marshalled (nil gives
\* the bytes null) and the URL is the concatenation of base and endpoint.
fetch1(c, method, endpoint, payload) ==
    LET body == IF payload.nil THEN s_null ELSE payload.json
        sg == signRequest(c, c.paymentApiKey, body)
    IN  IF sg.err # NoErr THEN NotSent("sign")
        ELSE IF ~c.baseURL.ok THEN NotSent("request")
        ELSE LET url == c.baseURL.origin \o EscapePath(c.baseURL.path \o endpoint)
             IN  Sent(Request(method, url, FetchHeader(c, sg.sign), body))

\* cryptomus.go, second revision: a nil payload gives an empty body and the
\* URL is joinURL(base, endpoint).
fetch2(c, method, endpoint, payload) ==
    LET bodyBytes == IF payload.nil THEN <<>> ELSE payload.json
        sg == signRequest(c, c.paymentApiKey, bodyBytes)
    IN  IF sg.err # NoErr THEN NotSent("sign")
        ELSE LET fullURL == joinURL(c.baseURL, endpoint)
             IN  IF ~fullURL.ok THEN NotSent("request")
                 ELSE Sent(Request(method, fullURL.url, FetchHeader(c, sg.sign), bodyBytes))

\* A variant that goes on when signRequest fails, with the empty signature
\* it returned.
fetchIgnoresSignError(rev, c, method, endpoint, payload) ==
    LET bodyBytes == IF payload.nil THEN (IF rev = 1 THEN s_null ELSE <<>>) ELSE payload.json
        sg == signRequest(c, c.paymentApiKey, bodyBytes)
        fullURL == IF rev = 1
                   THEN [ok |-> c.baseURL.ok,
                         url |-> c.baseURL.origin \o EscapePath(c.baseURL.path \o endpoint)]
                   ELSE joinURL(c.baseURL, endpoint)
    IN  IF ~fullURL.ok THEN NotSent("request")
        ELSE Sent(Request(method, fullURL.url, FetchHeader(c, sg.sign), bodyBytes))

\* The revision of fetch compiled in.
fetch(rev, c, method, endpoint, payload) ==
    IF rev = 1 THEN fetch1(c, method, endpoint, payload)
    ELSE fetch2(c, method, endpoint, payload)

\* A variant that returns a new error without the cause.
TransportErrNoCause(out) == Err("transport")

\* The end of fetch: the error c.client.Do returns is wrapped and returned.
TransportErr(out) == MkErr("transport", 0, <<>>, <<>>, out.cause)

(***************************************************************************)
(* The recurrence methods.  Each is modelled in two operators: XRequest is *)
(* the method up to the call of the transport, with result [err, sent];    *)
(* XResponse(sent, out) is the rest of it, given what the transport        *)
(* returned, with result [sent, result, err]: the requests handed to the   *)
(* transport and the pair the method returns.                              *)
(***************************************************************************)
Ret(sent, result, err) == [sent |-> sent, result |-> result, err |-> err]

StatusErr(code) == MkErr("status", code, <<>>, <<>>, "")
StateErr(state) == MkErr("state", state, <<>>, <<>>, "")
ValidationErr(errors) == MkErr("validation", 0, <<>>, errors, "")

\* The checks a recurrence method makes once the response is decoded: d is
\* what Decode gave, nil the zero result.  withErrors: the response type
\* declares the errors map.
CheckEnvelope(sent, nil, d, withErrors) ==
    IF ~d.ok THEN Ret(sent, nil, Err("decode"))
    ELSE IF d.val.State # 0 THEN
        IF withErrors /\ ~d.val.Errors.nil
        THEN Ret(sent, nil, ValidationErr(d.val.Errors.v))
        ELSE Ret(sent, nil, StateErr(d.val.State))
    ELSE IF d.val.Result.nil THEN Ret(sent, nil, Err("empty_result"))
    ELSE Ret(sent, d.val.Result, NoErr)

\* CreateRecurrence and ListRecurrences after fetch: any status but 200 is
\* an error; d is the body decoded into the response type.
PlainChecks(sent, out, nil, d) ==
    IF out.kind = "error" THEN Ret(sent, nil, TransportErr(out))
    ELSE IF out.status # 200 THEN Ret(sent, nil, StatusErr(out.status))
    ELSE CheckEnvelope(sent, nil, d, FALSE)

PlainResponse(sent, t, out) ==
    PlainChecks(sent, out, Zero(FieldOf(t, "Result").type), Decode(t, out.body))

\* GetRecurrenceInfo and CancelRecurrence after fetch: with another status
\* the body is decoded for validation errors.
ErrorsChecks(sent, out, nil, d) ==
    IF out.kind = "error" THEN Ret(sent, nil, TransportErr(out))
    ELSE IF out.status # 200 THEN
        IF d.ok /\ ~d.val.Errors.nil
        THEN Ret(sent, nil, ValidationErr(d.val.Errors.v))
        ELSE Ret(sent, nil, StatusErr(out.status))
    ELSE CheckEnvelope(sent, nil, d, TRUE)

ErrorsResponse(sent, t, out) ==
    ErrorsChecks(sent, out, Zero(FieldOf(t, "Result").type), Decode(t, out.body))

CreateRecurrenceRequest(c, rev, recReq) ==
    IF recReq.nil THEN NotSent("nil_request")
    ELSE fetch(rev, c, s_POST, s_createRecurrenceEndpoint,
               Payload(MarshalStruct("RecurrenceRequest", recReq.v)))

CreateRecurrenceResponse(sent, out) == PlainResponse(sent, "recurrenceRawResponse", out)

\* A variant of the local check that rejects only when the identifier is empty.
IdCheckUUIDOnly(req) == req.UUID = <<>>

\* The local check of GetRecurrenceInfo and CancelRecurrence.
IdCheck(req) == req.UUID = <<>> /\ req.OrderId = <<>>

GetRecurrenceInfoRequest(c, rev, infoReq) ==
    IF infoReq.nil THEN NotSent("nil_request")
    ELSE IF IdCheck(infoReq.v) THEN NotSent("missing_id")
    ELSE fetch(rev, c, s_POST, s_recurrenceInfoEndpoint,
               Payload(MarshalStruct("RecurrenceInfoRequest", infoReq.v)))

GetRecurrenceInfoResponse(sent, out) ==
    ErrorsResponse(sent, "recurrenceInfoRawResponse", out)

\* The payload is a map with the cursor when it is not empty.
ListRecurrencesRequest(c, rev, cursor) ==
    LET payload == IF cursor # <<>> THEN [nm \in {s_cursor} |-> JStr(cursor)] ELSE <<>>
    IN  fetch(rev, c, s_POST, s_recurrenceListEndpoint, Payload(MarshalMap(payload)))

ListRecurrencesResponse(sent, out) ==
    PlainResponse(sent, "recurrenceListRawResponse", out)

CancelRecurrenceRequest(c, rev, cancelReq) ==
    IF cancelReq.nil THEN NotSent("nil_request")
    ELSE IF IdCheck(cancelReq.v) THEN NotSent("missing_id")
    ELSE fetch(rev, c, s_POST, s_recurrenceCancelEndpoint,
               Payload(MarshalStruct("RecurrenceCancelRequest", cancelReq.v)))

CancelRecurrenceResponse(sent, out) ==
    ErrorsResponse(sent, "recurrenceCancelRawResponse", out)

(***************************************************************************)
(* ListExchangeRates, in its three revisions.                              *)
(***************************************************************************)

\* exchange.go, first revision: c.fetch("GET", endpoint, nil).
ListExchangeRates1Request(c, rev, currency) ==
    IF currency = <<>> THEN NotSent("missing_currency")
    ELSE fetch(rev, c, s_GET, s_exchPrefix1 \o currency \o s_exchSuffix, NilPayload)

\* No status check, and the result is returned as it was decoded (d).
RatesChecks1(sent, out, nil, d) ==
    IF out.kind = "error" THEN Ret(sent, nil, TransportErr(out))
    ELSE IF ~d.ok THEN Ret(sent, nil, Err("decode"))
    ELSE IF d.val.State # 0 THEN Ret(sent, nil, StateErr(d.val.State))
    ELSE Ret(sent, d.val.Result, NoErr)

ListExchangeRates1Response(sent, out) ==
    RatesChecks1(sent, out, Zero("[]ExchangeRate"),
                 Decode("exchangeRateListRawResponse", out.body))

\* exchange.go, second revision: the currency is trimmed first.
ListExchangeRates2Request(c, rev, currency) ==
    IF TrimSpace(currency) = <<>> THEN NotSent("missing_currency")
    ELSE fetch(rev, c, s_GET, s_exchPrefix1 \o TrimSpace(currency) \o s_exchSuffix,
               NilPayload)

\* What the second and third revisions do with the response: errResp is
\* the body decoded for a message (the error of that is ignored), d the
\* body decoded into the response type.
RatesChecks2(sent, out, nil, errResp, d) ==
    IF out.kind = "error" THEN Ret(sent, nil, TransportErr(out))
    ELSE IF out.status # 200 THEN
        IF errResp.val.Message # <<>>
        THEN Ret(sent, nil, MkErr("status", out.status, errResp.val.Message, <<>>, ""))
        ELSE Ret(sent, nil, StatusErr(out.status))
    ELSE IF ~d.ok THEN Ret(sent, nil, Err("decode"))
    ELSE IF d.val.State # 0 THEN Ret(sent, nil, StateErr(d.val.State))
    ELSE IF Len(d.val.Result.v) = 0 THEN Ret(sent, nil, Err("empty_result"))
    ELSE Ret(sent, d.val.Result, NoErr)

ListExchangeRates2Response(sent, out) ==
    RatesChecks2(sent, out, Zero("[]ExchangeRate"), Decode("errResp", out.body),
                 Decode("exchangeRateListRawResponse", out.body))

\* Third revision: the request is built in the method, with no body and the
\* Accept header only, and handed to the transport directly.
ListExchangeRates3Request(c, currency) ==
    IF TrimSpace(currency) = <<>> THEN NotSent("missing_currency")
    ELSE LET endpoint == s_exchPrefix3 \o TrimSpace(currency) \o s_exchSuffix
             fullURL == joinURL(c.baseURL, endpoint)
         IN  IF ~fullURL.ok THEN NotSent("request")
             ELSE Sent(Request(s_GET, fullURL.url, [h \in {"Accept"} |-> s_appJson], <<>>))

ListExchangeRates3Response(sent, out) == ListExchangeRates2Response(sent, out)

(***************************************************************************)
(* The inputs of the model.                                                *)
(***************************************************************************)

\* The base URLs SetBaseURL is given: the default, the default with a
\* trailing slash, a host with no path, and a string url.Parse rejects.
BaseURL == [ok |-> TRUE, origin |-> s_origin, path |-> s_v1path]
BaseURLs ==
    { BaseURL,
      [ok |-> TRUE, origin |-> s_origin, path |-> s_v1path \o s_slash],
      [ok |-> TRUE, origin |-> s_local, path |-> <<>>],
      [ok |-> FALSE, origin |-> <<58, 47, 47>>, path |-> <<>>] }

MerchantIDs == {<<>>, s_m1}
Keys == {<<>>, s_k1, s_k2}

\* Request values.
Req(t, fields) == [nil |-> FALSE, v |-> [g \in GoNames(t) |->
                     IF g \in DOMAIN fields THEN fields[g] ELSE Zero(FieldOf(t, g).type)]]

RecurrenceRequests ==
    { Zero("*RecurrenceRequest") } \cup
    { Req("RecurrenceRequest",
          [Amount |-> s_ten, Currency |-> s_USD, Name |-> s_plan, Period |-> s_monthly]),
      Req("RecurrenceRequest",
          [Amount |-> s_ten, Currency |-> s_USD, Name |-> s_plan, Period |-> s_monthly,
           OrderId |-> s_o1, DiscountDays |-> [nil |-> FALSE, v |-> 3]]) }

IdRequests(t) ==
    { Zero("*" \o t) } \cup
    { Req(t, [UUID |-> u, OrderId |-> o]) : u \in {<<>>, s_u1}, o \in {<<>>, s_o1} }

Cursors == {<<>>, s_c1}
Currencies == {<<>>, <<32>>, s_USDT, <<32>> \o s_USDT}

\* A member that is absent from an object.
JAbsent == [k |-> "absent", s |-> <<>>, n |-> 0, m |-> <<>>]

\* The object with these members, the absent ones left out.
Object(ms) == JObj(SelectSeq(ms, LAMBDA x : x.val.k # "absent"))

RecurrenceJSON ==
    Object(<< Member(s_uuid, JStr(s_r1)), Member(s_order_id, JStr(s_o1)),
              Member(s_status, JStr(s_active)), Member(s_last_pay_off, JStr(s_time1)),
              Member(s_x, JNum(1)) >>)

RateJSON(to) ==
    Object(<< Member(s_from_, JStr(s_USDT)), Member(s_to, JStr(to)),
              Member(s_course, JStr(s_rate)) >>)

StateValues == {JAbsent, JNum(0), JNum(1), JNum(-1), JNum(128)}
ErrorsValues ==
    {JAbsent, JNull, JObj(<<>>), JObj(<<Member(s_uuid, JArr(<<JStr(s_required)>>))>>)}
MessageValues == {JAbsent, JStr(s_msg)}

\* The values of the result member, by the kind of the operation.
ResultValues(family) ==
    CASE family = "recurrence" -> {JAbsent, JNull, JObj(<<>>), RecurrenceJSON, JStr(s_x)}
      [] family = "list" ->
           { JAbsent, JNull, JStr(s_x),
             Object(<< Member(s_items, JArr(<<RecurrenceJSON>>)),
                       Member(s_paginate,
                              Object(<< Member(s_count, JNum(1)),
                                        Member(s_hasPages, JBool(FALSE)),
                                        Member(s_perPage, JNum(10)) >>)) >>) }
      [] family = "rates" ->
           { JAbsent, JNull, JArr(<<>>), JArr(<<RateJSON(s_BTC)>>),
             JArr(<<RateJSON(s_BTC), RateJSON(s_USD)>>), JObj(<<>>) }

\* The bodies a server may answer with.
Bodies(family) ==
    { NoBody, [kind |-> "json", json |-> JNull] } \cup
    { [kind |-> "json",
       json |-> Object(<< Member(s_state, st), Member(s_result, r),
                          Member(s_errors, e), Member(s_message, m) >>)] :
        st \in StateValues, r \in ResultValues(family),
        e \in ErrorsValues, m \in MessageValues }

Statuses == {200, 201, 404}

\* What the transport may return.
Outcomes(family) ==
    { DoError("timeout") } \cup
    { DoResponse(st, b) : st \in Statuses, b \in Bodies(family) }

\* The bodies signRequest is given.
SignBodies ==
    { <<>>, s_null, EncodeValue(JObj(<<>>)),
      EncodeValue(JObj(<<Member(s_uuid, JStr(s_u1))>>)) }

\* The most data members of a body VerifySign is given.
MaxFields == 2

\* The data members of those bodies: two of them have the same name, and
\* one holds a byte json.Marshal escapes.
DataMembers ==
    { Member(s_b, JStr(s_x)), Member(s_a, JNum(1)), Member(s_a, JStr(s_lt)) }

DataFields == UNION { [1..n -> DataMembers] : n \in 0..MaxFields }

\* The signature a sender computes with its key over the bytes it chose.
SenderSign(key, bytes) == Md5Hex(EncodeToString(bytes) \o key)

\* The values of the sign member for the data members data: absent, the
\* signature over the data with its keys sorted (under three keys), over
\* the data as written, two other strings, and values that are no string.
SignValues(data) ==
    LET sorted == MarshalMap(UnmarshalMap(data))
    IN  { JAbsent, JNull, JNum(1), JBool(TRUE), JArr(<<>>), JObj(<<>>),
          JStr(<<>>), JStr(s_x),
          JStr(SenderSign(s_k1, EncodeValue(JObj(data)))) } \cup
        { JStr(SenderSign(k, sorted)) : k \in Keys }

AllSignValues == UNION { SignValues(d) : d \in DataFields }

\* The raw bodies VerifySign is given: bytes that are no JSON, the values
\* null and [], and objects with the sign member first or last.
RawBodies ==
    { NoBody, [kind |-> "json", json |-> JNull], [kind |-> "json", json |-> JArr(<<>>)] } \cup
    UNION { { [kind |-> "json", json |-> Object(<<Member(s_sign, sg)>> \o data)],
              [kind |-> "json", json |-> Object(data \o <<Member(s_sign, sg)>>)] } :
            <<data, sg>> \in { <<d, v>> \in DataFields \X AllSignValues :
                                 v \in SignValues(d) } }

(***************************************************************************)
(* The state: the fields of the client, the revision of fetch compiled in, *)
(* and the call in progress: the method, its arguments, the requests it    *)
(* handed to the transport, what the transport returned and what the       *)
(* method returns.  call.op is "none" between calls.  Under Spec a call is *)
(* one step; inflight is the call that takes its steps one by one when     *)
(* methods are called from several goroutines (Concurrent, below).         *)
(***************************************************************************)
VARIABLES baseURL, merchantID, paymentApiKey, payoutApiKey, rev, call, inflight

client == <<baseURL, merchantID, paymentApiKey, payoutApiKey>>
vars == <<baseURL, merchantID, paymentApiKey, payoutApiKey, rev, call, inflight>>

\* The receiver c of a method.
Cryptomus(b, m, pay, payout) ==
    [baseURL |-> b, merchantID |-> m, paymentApiKey |-> pay, payoutApiKey |-> payout]

c == Cryptomus(baseURL, merchantID, paymentApiKey, payoutApiKey)

Call(op, arg, key, sent, resp, result, err) ==
    [op |-> op, arg |-> arg, key |-> key, sent |-> sent, resp |-> resp,
     result |-> result, err |-> err]

NoCall == Call("none", <<>>, <<>>, <<>>, NoOutcome, <<>>, NoErr)

\* A call that runs beside other calls on the same client, between two of
\* its reads of the client: pc is the read it is at ("none": no such call),
\* seen the client as the call has read it so far (a field it has not read
\* holds what New sets it to from empty arguments), and racing the values
\* of baseURL written beside the call before it read that field.
Flight(pc, op, arg, seen, racing) ==
    [pc |-> pc, op |-> op, arg |-> arg, seen |-> seen, racing |-> racing]

NoFlight == Flight("none", "none", <<>>, Cryptomus(BaseURL, <<>>, <<>>, <<>>), {})

\* New(client, merchantID, paymentApiKey, payoutApiKey)
Init ==
    /\ baseURL = BaseURL
    /\ merchantID \in MerchantIDs
    /\ paymentApiKey \in Keys \ {s_k2}
    /\ payoutApiKey \in Keys \ {s_k1}
    /\ rev \in {1, 2}
    /\ call = NoCall
    /\ inflight = NoFlight

Idle == call.op = "none"

\* A variant that assigns the string to the field declared after baseURL.
SetBaseURLWrongField ==
    /\ Idle
    /\ \E b \in BaseURLs : merchantID' = URLBytes(b)
    /\ UNCHANGED <<baseURL, paymentApiKey, payoutApiKey, rev, call, inflight>>

SetBaseURL ==
    /\ Idle
    /\ \E b \in BaseURLs : baseURL' = b
    /\ UNCHANGED <<merchantID, paymentApiKey, payoutApiKey, rev, call, inflight>>

\* A call of method op with argument arg returns err before the transport is
\* called, with the zero result nil.
Local(op, arg, nil, err) ==
    /\ call' = Call(op, arg, <<>>, <<>>, NoOutcome, nil, err)
    /\ UNCHANGED <<baseURL, merchantID, paymentApiKey, payoutApiKey, rev, inflight>>

\* A call of method op with argument arg, whose request the transport
\* answers with out, returns r.
Answer(op, arg, out, r) ==
    /\ call' = Call(op, arg, <<>>, r.sent, out, r.result, r.err)
    /\ UNCHANGED <<baseURL, merchantID, paymentApiKey, payoutApiKey, rev, inflight>>

DoCreateRecurrence ==
    /\ Idle
    /\ \E recReq \in RecurrenceRequests :
          LET started == CreateRecurrenceRequest(c, rev, recReq)
          IN  IF started.sent = <<>>
              THEN Local("CreateRecurrence", recReq, Zero("*Recurrence"), started.err)
              ELSE \E out \in Outcomes("recurrence") :
                      Answer("CreateRecurrence", recReq, out,
                             CreateRecurrenceResponse(started.sent, out))

DoGetRecurrenceInfo ==
    /\ Idle
    /\ \E infoReq \in IdRequests("RecurrenceInfoRequest") :
          LET started == GetRecurrenceInfoRequest(c, rev, infoReq)
          IN  IF started.sent = <<>>
              THEN Local("GetRecurrenceInfo", infoReq, Zero("*Recurrence"), started.err)
              ELSE \E out \in Outcomes("recurrence") :
                      Answer("GetRecurrenceInfo", infoReq, out,
                             GetRecurrenceInfoResponse(started.sent, out))

DoListRecurrences ==
    /\ Idle
    /\ \E cursor \in Cursors :
          LET started == ListRecurrencesRequest(c, rev, cursor)
          IN  IF started.sent = <<>>
              THEN Local("ListRecurrences", cursor, Zero("*RecurrenceListResponse"), started.err)
              ELSE \E out \in Outcomes("list") :
                      Answer("ListRecurrences", cursor, out,
                             ListRecurrencesResponse(started.sent, out))

DoCancelRecurrence ==
    /\ Idle
    /\ \E cancelReq \in IdRequests("RecurrenceCancelRequest") :
          LET started == CancelRecurrenceRequest(c, rev, cancelReq)
          IN  IF started.sent = <<>>
              THEN Local("CancelRecurrence", cancelReq, Zero("*Recurrence"), started.err)
              ELSE \E out \in Outcomes("recurrence") :
                      Answer("CancelRecurrence", cancelReq, out,
                             CancelRecurrenceResponse(started.sent, out))

DoListExchangeRates1 ==
    /\ Idle
    /\ \E currency \in Currencies :
          LET started == ListExchangeRates1Request(c, rev, currency)
          IN  IF started.sent = <<>>
              THEN Local("ListExchangeRates1", currency, Zero("[]ExchangeRate"), started.err)
              ELSE \E out \in Outcomes("rates") :
                      Answer("ListExchangeRates1", currency, out,
                             ListExchangeRates1Response(started.sent, out))

DoListExchangeRates2 ==
    /\ Idle
    /\ \E currency \in Currencies :
          LET started == ListExchangeRates2Request(c, rev, currency)
          IN  IF started.sent = <<>>
              THEN Local("ListExchangeRates2", currency, Zero("[]ExchangeRate"), started.err)
              ELSE \E out \in Outcomes("rates") :
                      Answer("ListExchangeRates2", currency, out,
                             ListExchangeRates2Response(started.sent, out))

DoListExchangeRates3 ==
    /\ Idle
    /\ \E currency \in Currencies :
          LET started == ListExchangeRates3Request(c, currency)
          IN  IF started.sent = <<>>
              THEN Local("ListExchangeRates3", currency, Zero("[]ExchangeRate"), started.err)
              ELSE \E out \in Outcomes("rates") :
                      Answer("ListExchangeRates3", currency, out,
                             ListExchangeRates3Response(started.sent, out))

\* c.signRequest(apiKey, reqBody)
DoSignRequest ==
    /\ Idle
    /\ \E apiKey \in Keys, reqBody \in SignBodies :
          LET r == signRequest(c, apiKey, reqBody)
          IN  call' = Call("signRequest", reqBody, apiKey, <<>>, NoOutcome, r.sign, r.err)
    /\ UNCHANGED <<baseURL, merchantID, paymentApiKey, payoutApiKey, rev, inflight>>

\* c.VerifySign(apiKey, reqBody)
DoVerifySign ==
    /\ Idle
    /\ \E apiKey \in Keys, reqBody \in RawBodies :
          call' = Call("VerifySign", reqBody, apiKey, <<>>, NoOutcome, <<>>,
                       VerifySign(c, apiKey, reqBody))
    /\ UNCHANGED <<baseURL, merchantID, paymentApiKey, payoutApiKey, rev, inflight>>

\* The method returns to its caller; nothing of the call is kept.
Return ==
    /\ ~Idle
    /\ call' = NoCall
    /\ UNCHANGED <<baseURL, merchantID, paymentApiKey, payoutApiKey, rev, inflight>>

Next ==
    \/ SetBaseURL
    \/ DoCreateRecurrence
    \/ DoGetRecurrenceInfo
    \/ DoListRecurrences
    \/ DoCancelRecurrence
    \/ DoListExchangeRates1
    \/ DoListExchangeRates2
    \/ DoListExchangeRates3
    \/ DoSignRequest
    \/ DoVerifySign
    \/ Return

Spec == Init /\ [][Next]_vars

(***************************************************************************)
(* What the properties below speak of.                                     *)
(***************************************************************************)
DomainOps ==
    { "CreateRecurrence", "GetRecurrenceInfo", "ListRecurrences", "CancelRecurrence",
      "ListExchangeRates1", "ListExchangeRates2", "ListExchangeRates3" }

\* The type of the result of each operation.
ResultType(op) ==
    CASE op \in {"CreateRecurrence", "GetRecurrenceInfo", "CancelRecurrence"} -> "*Recurrence"
      [] op = "ListRecurrences" -> "*RecurrenceListResponse"
      [] OTHER -> "[]ExchangeRate"

\* The call in progress is one of a domain operation that the server answered.
Answered == call.op \in DomainOps /\ call.resp.kind = "http"

\* The status is http.StatusOK, the status of success every operation tests for.
StatusOK == call.resp.status = 200

HTTPSuccess == call.resp.status \in 200..299

\* The member nm of the envelope the server answered with.
Env(nm) ==
    LET b == call.resp.body
    IN  IF b.kind = "json" /\ b.json.k = "obj" /\ LastIndex(b.json.m, nm) # 0
        THEN b.json.m[LastIndex(b.json.m, nm)].val
        ELSE JAbsent

\* The envelope's result, as a value of the operation's result type.
EnvResult == DecodeInto(ResultType(call.op), Env(s_result))

\* The envelope's errors, as a map.
EnvErrors == DecodeInto("map[string][]string", Env(s_errors))

StateNonZero == Env(s_state).k = "num" /\ Env(s_state).n # 0

ErrorsNonEmpty == Env(s_errors).k = "obj" /\ Env(s_errors).m # <<>> /\ EnvErrors.ok

\* The clients a method may be called on.
Clients ==
    { Cryptomus(b, m, pay, payout) :
        b \in BaseURLs, m \in MerchantIDs, pay \in Keys, payout \in Keys }

(***************************************************************************)
(* Calls from several goroutines.  Nothing in Cryptomus is locked, so a   *)
(* call of SetBaseURL may run between any two steps of a call of a domain  *)
(* operation.  The operation reads the client three times: paymentApiKey   *)
(* to sign, baseURL to build the URL, merchantID for the header            *)
(* (ListExchangeRates of sign.go reads baseURL only).  A read of baseURL   *)
(* that SetBaseURL wrote beside the call is a data race on a string (a     *)
(* pointer and a length, written one after the other): it gives a value    *)
(* written, or the bytes of one value with the length of another.          *)
(***************************************************************************)

\* The method op up to the call of the transport, on the client seen.
Started(op, seen, arg) ==
    CASE op = "CreateRecurrence" -> CreateRecurrenceRequest(seen, rev, arg)
      [] op = "GetRecurrenceInfo" -> GetRecurrenceInfoRequest(seen, rev, arg)
      [] op = "ListRecurrences" -> ListRecurrencesRequest(seen, rev, arg)
      [] op = "CancelRecurrence" -> CancelRecurrenceRequest(seen, rev, arg)
      [] op = "ListExchangeRates1" -> ListExchangeRates1Request(seen, rev, arg)
      [] op = "ListExchangeRates2" -> ListExchangeRates2Request(seen, rev, arg)
      [] op = "ListExchangeRates3" -> ListExchangeRates3Request(seen, arg)

\* The rest of the method op, given what the transport returned.
Finished(op, sent, out) ==
    CASE op = "CreateRecurrence" -> CreateRecurrenceResponse(sent, out)
      [] op = "GetRecurrenceInfo" -> GetRecurrenceInfoResponse(sent, out)
      [] op = "ListRecurrences" -> ListRecurrencesResponse(sent, out)
      [] op = "CancelRecurrence" -> CancelRecurrenceResponse(sent, out)
      [] op = "ListExchangeRates1" -> ListExchangeRates1Response(sent, out)
      [] op = "ListExchangeRates2" -> ListExchangeRates2Response(sent, out)
      [] op = "ListExchangeRates3" -> ListExchangeRates3Response(sent, out)

\* The arguments and the answers of the method op.
Args(op) ==
    CASE op = "CreateRecurrence" -> RecurrenceRequests
      [] op = "GetRecurrenceInfo" -> IdRequests("RecurrenceInfoRequest")
      [] op = "CancelRecurrence" -> IdRequests("RecurrenceCancelRequest")
      [] op = "ListRecurrences" -> Cursors
      [] OTHER -> Currencies

Family(op) ==
    CASE op \in {"CreateRecurrence", "GetRecurrenceInfo", "CancelRecurrence"} -> "recurrence"
      [] op = "ListRecurrences" -> "list"
      [] OTHER -> "rates"

\* What the transport returns to a call that runs beside others: an error,
\* a 404 with no body, or a 200 with state 0 and a result.
OutcomesBeside(family) ==
    { DoError("timeout"), DoResponse(404, NoBody) } \cup
    { DoResponse(200, [kind |-> "json",
                       json |-> Object(<< Member(s_state, JNum(0)),
                                          Member(s_result, r) >>)]) :
        r \in { v \in ResultValues(family) : v.m # <<>> } }

\* What a read of baseURL may give.  inflight.racing holds the values the
\* field had since the call began: the read gives one of them, or (when
\* SetBaseURL wrote beside the call) the bytes of one cut to the length of
\* another, where the bytes go that far; bytes past the end of a string
\* are not modelled.
BaseURLReads ==
    inflight.racing \cup
    { ParseURL(SubSeq(URLBytes(p[2]), 1, Len(URLBytes(p[1])))) :
        p \in { q \in inflight.racing \X inflight.racing :
                  Len(URLBytes(q[1])) <= Len(URLBytes(q[2])) } }

\* The call returns err before the transport is called.
ReturnLocal(op, arg, err) ==
    /\ call' = Call(op, arg, <<>>, <<>>, NoOutcome, Zero(ResultType(op)), err)
    /\ inflight' = NoFlight

\* A goroutine calls a domain operation: the local checks, and the read of
\* paymentApiKey for signRequest.
CallBegin ==
    /\ Idle
    /\ inflight.pc = "none"
    /\ \E op \in DomainOps : \E arg \in Args(op) :
          LET seen == [inflight.seen EXCEPT !.paymentApiKey = paymentApiKey]
              started == Started(op, seen, arg)
          IN  IF started.err.kind \in {"nil_request", "missing_id", "missing_currency", "sign"}
              THEN ReturnLocal(op, arg, started.err)
              ELSE /\ inflight' = Flight("baseURL", op, arg, seen, {baseURL})
                   /\ UNCHANGED call
    /\ UNCHANGED <<baseURL, merchantID, paymentApiKey, payoutApiKey, rev>>

\* The call reads baseURL and builds the URL of the request.
CallReadBaseURL ==
    /\ inflight.pc = "baseURL"
    /\ \E b \in BaseURLReads :
          LET seen == [inflight.seen EXCEPT !.baseURL = b]
              started == Started(inflight.op, seen, inflight.arg)
          IN  IF started.sent = <<>>
              THEN ReturnLocal(inflight.op, inflight.arg, started.err)
              ELSE /\ inflight' = [inflight EXCEPT !.pc = "merchantID", !.seen = seen, !.racing = {}]
                   /\ UNCHANGED call
    /\ UNCHANGED <<baseURL, merchantID, paymentApiKey, payoutApiKey, rev>>

\* The call reads merchantID for the header, hands the request to the
\* transport and handles what it returns.
CallSend ==
    /\ inflight.pc = "merchantID"
    /\ LET seen == [inflight.seen EXCEPT !.merchantID = merchantID]
           started == Started(inflight.op, seen, inflight.arg)
       IN  \E out \in OutcomesBeside(Family(inflight.op)) :
              LET r == Finished(inflight.op, started.sent, out)
              IN  call' = Call(inflight.op, inflight.arg, <<>>, r.sent, out, r.result, r.err)
    /\ inflight' = NoFlight
    /\ UNCHANGED <<baseURL, merchantID, paymentApiKey, payoutApiKey, rev>>

\* Another goroutine calls SetBaseURL, whatever the first is doing.
SetBaseURLBeside ==
    /\ \E b \in BaseURLs : baseURL' = b
    /\ inflight' = IF inflight.pc = "baseURL"
                   THEN [inflight EXCEPT !.racing = @ \cup {baseURL'}]
                   ELSE inflight
    /\ UNCHANGED <<merchantID, paymentApiKey, payoutApiKey, rev, call>>

NextConcurrent ==
    \/ CallBegin
    \/ CallReadBaseURL
    \/ CallSend
    \/ SetBaseURLBeside
    \/ Return

Concurrent == Init /\ [][NextConcurrent]_vars

(***************************************************************************)
(* The signature.                                                          *)
(***************************************************************************)

\* C1: for every key and every raw body that is a JSON object, VerifySign
\* returns no error exactly when the sign member is a string equal to
\* signRequest of the key and the canonical serialization (keys sorted, of
\* two members of one name the later) of the body without the sign member;
\* in every other case it returns an error.
C1_VerifySignIff ==
    (call.op = "VerifySign" /\ call.arg.kind = "json" /\ call.arg.json.k = "obj") =>
        LET ms == call.arg.json.m
            at == LastIndex(ms, s_sign)
            rest == SelectSeq(ms, LAMBDA x : x.name # s_sign)
            expected == signRequest(c, call.key, MarshalMap(UnmarshalMap(rest)))
        IN  (call.err = NoErr) <=>
                /\ at # 0
                /\ ms[at].val.k = "str"
                /\ expected.err = NoErr
                /\ ms[at].val.s = expected.sign

\* VerifySign accepted a body whose members were written out of order, the
\* name a twice, with the sign member first.
C1_Witness ==
    /\ call.op = "VerifySign"
    /\ call.err = NoErr
    /\ call.arg.json.k = "obj"
    /\ Len(call.arg.json.m) = 3
    /\ call.arg.json.m[1].name = s_sign
    /\ call.arg.json.m[2].name = s_b
    /\ call.arg.json.m[3].name = s_a

\* C2: signRequest with the empty key returns the empty-key error and no
\* digest, for every body and for the empty body; with a key that is not
\* empty it returns no error.
C2_EmptyKey ==
    call.op = "signRequest" =>
        IF call.key = <<>>
        THEN call.err.kind = "empty_key" /\ call.result = <<>>
        ELSE call.err = NoErr

\* signRequest was called with the empty key and the empty body.
C2_Witness ==
    /\ call.op = "signRequest"
    /\ call.key = <<>>
    /\ call.arg = <<>>
    /\ call.err.kind = "empty_key"

\* C3: what signRequest returns depends on the key and the body bytes only:
\* on every client, whatever its merchant id, base URL and keys, and after
\* whatever calls, it returns the same digest for them; and the call leaves
\* the fields of the client as they were.
C3_DigestOfKeyAndBytes ==
    [][call'.op = "signRequest" =>
          /\ UNCHANGED client
          /\ \A other \in Clients :
                signRequest(other, call'.key, call'.arg)
                    = [sign |-> call'.result, err |-> call'.err]]_vars

\* signRequest gave a digest for a key that is neither of the client's, on a
\* client with a merchant id and another base URL.
C3_Witness ==
    /\ call.op = "signRequest"
    /\ call.err = NoErr
    /\ call.result # <<>>
    /\ call.key \notin {paymentApiKey, payoutApiKey}
    /\ merchantID # <<>>
    /\ baseURL # BaseURL

(***************************************************************************)
(* The envelope of a response.                                             *)
(***************************************************************************)

\* C4: for every domain operation, a 200 response whose envelope has state 0
\* and a result that is not null (an empty list of exchange rates too) makes
\* the operation return that result and no error.
C4_SuccessWithResult ==
    ( /\ Answered
      /\ StatusOK
      /\ Env(s_state) = JNum(0)
      /\ Env(s_result).k \notin {"absent", "null"}
      /\ EnvResult.ok ) =>
        /\ call.err = NoErr
        /\ call.result = EnvResult.val

\* C5: for every domain operation, a 200 response whose envelope has state 0
\* and a null or absent result makes the operation return the empty-result
\* error, never a nil or empty result with no error.
C5_EmptyResult ==
    ( /\ Answered
      /\ StatusOK
      /\ Env(s_state) = JNum(0)
      /\ Env(s_result).k \in {"absent", "null"} ) =>
        call.err.kind = "empty_result"

\* C6: for every domain operation, a 200 response whose envelope has a state
\* other than 0 and an errors map that is not empty makes the operation
\* return a validation error with that map, whatever result of the
\* operation's type the envelope has.
C6_ValidationError ==
    (Answered /\ StatusOK /\ StateNonZero /\ ErrorsNonEmpty /\ EnvResult.ok) =>
        /\ call.err.kind = "validation"
        /\ call.err.errors = EnvErrors.val.v

\* C7: for every domain operation and every state code other than 0, a 200
\* response whose errors member is absent, null or {} makes the operation
\* return a state error with that code: no validation error, no decode
\* error and no success.
C7_StateError ==
    ( /\ Answered
      /\ StatusOK
      /\ StateNonZero
      /\ EnvResult.ok
      /\ Env(s_errors).k \in {"absent", "null"} \/ Env(s_errors) = JObj(<<>>) ) =>
        /\ call.err.kind = "state"
        /\ call.err.code = Env(s_state).n

\* C8: GetRecurrenceInfo and CancelRecurrence, given a request whose uuid
\* and order id are both empty, return an error and hand nothing to the
\* transport; given one with either of them, the local check lets it pass
\* (and with a payment key and a base URL that parses, the request is sent).
C8_LocalIdCheck ==
    (call.op \in {"GetRecurrenceInfo", "CancelRecurrence"} /\ ~call.arg.nil) =>
        IF call.arg.v.UUID = <<>> /\ call.arg.v.OrderId = <<>>
        THEN call.err # NoErr /\ call.sent = <<>> /\ call.resp = NoOutcome
        ELSE /\ call.err.kind # "missing_id"
             /\ (paymentApiKey # <<>> /\ baseURL.ok) => Len(call.sent) = 1

\* GetRecurrenceInfo rejected a request with neither identifier, on a client
\* that could have signed and sent it.
C8_Witness ==
    /\ call.op = "GetRecurrenceInfo"
    /\ ~call.arg.nil
    /\ call.arg.v.UUID = <<>>
    /\ call.arg.v.OrderId = <<>>
    /\ call.err.kind = "missing_id"
    /\ paymentApiKey # <<>>
    /\ baseURL.ok

\* C9: every request a domain operation hands to the transport has the
\* headers Content-Type: application/json, merchant: the client's merchant
\* id, and sign: the signature of the request's body.
C9_Headers ==
    call.op \in DomainOps =>
        \A i \in 1..Len(call.sent) :
            LET req == call.sent[i]
                sg == signRequest(c, paymentApiKey, req.body)
            IN  /\ {"Content-Type", "merchant", "sign"} \subseteq DOMAIN req.header
                /\ req.header["Content-Type"] = s_appJson
                /\ req.header["merchant"] = merchantID
                /\ sg.err = NoErr
                /\ req.header["sign"] = sg.sign

\* C10: for every domain operation, a response whose status is not 2xx never
\* gives a result with no error; when its body has a message string or an
\* errors map, the error has that detail, and otherwise the status code.
C10_NonSuccessStatus ==
    (Answered /\ ~HTTPSuccess /\ EnvResult.ok) =>
        LET hasMessage == Env(s_message).k = "str" /\ Env(s_message).s # <<>>
        IN  /\ call.err # NoErr
            /\ IF hasMessage \/ ErrorsNonEmpty
               THEN \/ hasMessage /\ call.err.text = Env(s_message).s
                    \/ ErrorsNonEmpty /\ call.err.errors = EnvErrors.val.v
               ELSE call.err.code = call.resp.status

(***************************************************************************)
(* The transport.                                                          *)
(***************************************************************************)

\* C11: a domain operation hands at most one request to the transport in a
\* call, whatever the transport returns; when the transport returns an
\* error, the operation has called it once and returns an error that wraps
\* that cause (and no result).
C11_OneTransportCall ==
    call.op \in DomainOps =>
        /\ Len(call.sent) <= 1
        /\ call.resp.kind # "none" => Len(call.sent) = 1
        /\ call.resp.kind = "error" =>
              /\ Len(call.sent) = 1
              /\ call.err.kind = "transport"
              /\ call.err.cause = call.resp.cause
              /\ call.result = Zero(ResultType(call.op))

\* The transport failed under ListRecurrences, which returned its cause.
C11_Witness ==
    /\ call.op = "ListRecurrences"
    /\ call.resp = DoError("timeout")
    /\ Len(call.sent) = 1
    /\ call.err.cause = "timeout"

(***************************************************************************)
(* Calls from several goroutines.                                          *)
(***************************************************************************)

\* C12: under every interleaving of calls of the public methods on one
\* client, no call writes a field of the client while a call that reads it
\* is in progress, and the call in progress uses the values fixed at
\* construction: the payment key of the client, and the base URL New set.
C12_NoSharedMutableState ==
    [][ /\ inflight.pc # "none" => UNCHANGED client
        /\ inflight'.pc # "none" =>
              /\ inflight'.seen.paymentApiKey = paymentApiKey'
              /\ inflight'.pc = "merchantID" => inflight'.seen.baseURL = BaseURL ]_vars

(***************************************************************************)
(* VerifySign and the order of the members.                                *)
(***************************************************************************)

\* The members of the body VerifySign was given, and those other than sign,
\* in the order received.
Received == call.arg.json.m
ReceivedRest == SelectSeq(Received, LAMBDA x : x.name # s_sign)

\* C13: VerifySign serializes the members left after removing sign in the
\* order in which the body had them, neither sorted nor normalized: a body
\* whose members have different names and whose sign member is the
\* signature, under the key given, of its other members as received is
\* accepted, whatever their order.
C13_ReceivedOrder ==
    ( /\ call.op = "VerifySign"
      /\ call.arg.kind = "json"
      /\ call.arg.json.k = "obj"
      /\ call.key # <<>>
      /\ \A i, j \in 1..Len(Received) : Received[i].name = Received[j].name => i = j
      /\ LastIndex(Received, s_sign) # 0
      /\ Received[LastIndex(Received, s_sign)].val
            = JStr(SenderSign(call.key, EncodeValue(JObj(ReceivedRest)))) ) =>
        call.err = NoErr

\* C14: VerifySign, given a JSON object with no sign member or with a sign
\* member that is no string (a number, null, a boolean, an array, an
\* object), returns the missing-signature error, under every key and under
\* the empty key too: not the invalid-signature error, not the error of
\* signRequest.
C14_MissingSignature ==
    ( /\ call.op = "VerifySign"
      /\ call.arg.kind = "json"
      /\ call.arg.json.k = "obj"
      /\ \/ LastIndex(Received, s_sign) = 0
         \/ Received[LastIndex(Received, s_sign)].val.k # "str" ) =>
        call.err.kind = "missing_signature"

\* VerifySign, under the empty key, was given an object whose sign member is
\* a number beside another member, and returned the missing-signature error.
C14_Witness ==
    /\ call.op = "VerifySign"
    /\ call.key = <<>>
    /\ call.arg.kind = "json"
    /\ call.arg.json.k = "obj"
    /\ Len(Received) = 2
    /\ Received[2] = Member(s_sign, JNum(1))
    /\ call.err.kind = "missing_signature"

(***************************************************************************)
(* The requests fetch builds.                                              *)
(***************************************************************************)

\* The operations that go through fetch.
FetchOps == DomainOps \ {"ListExchangeRates3"}

\* C15: every request dispatched through fetch has in its sign header
\* signRequest of the payment key and of the very bytes sent as its body;
\* and ListExchangeRates, a GET with no payload, sends the empty body and
\* signs the empty byte sequence, not a serialization such as null.
C15_SignsBytesSent ==
    call.op \in FetchOps =>
        \A i \in 1..Len(call.sent) :
            LET req == call.sent[i]
            IN  /\ req.header["sign"] = signRequest(c, paymentApiKey, req.body).sign
                /\ call.op \in {"ListExchangeRates1", "ListExchangeRates2"} =>
                      /\ req.body = <<>>
                      /\ req.header["sign"] = signRequest(c, paymentApiKey, <<>>).sign

\* The endpoint a call asks for: the constant of the operation, with the
\* currency in it for ListExchangeRates.
EndpointOf(op, arg) ==
    CASE op = "CreateRecurrence" -> s_createRecurrenceEndpoint
      [] op = "GetRecurrenceInfo" -> s_recurrenceInfoEndpoint
      [] op = "ListRecurrences" -> s_recurrenceListEndpoint
      [] op = "CancelRecurrence" -> s_recurrenceCancelEndpoint
      [] op = "ListExchangeRates1" -> s_exchPrefix1 \o arg \o s_exchSuffix
      [] op = "ListExchangeRates2" -> s_exchPrefix1 \o TrimSpace(arg) \o s_exchSuffix
      [] op = "ListExchangeRates3" -> s_exchPrefix3 \o TrimSpace(arg) \o s_exchSuffix

\* The segments of a path: what lies between its slashes, the empty pieces
\* left out.
Segments(p) == SelectSeq(Split(p), LAMBDA x : x # <<>>)

\* The path made of these segments, a slash before each.
Slashed(segs) == Concat([i \in 1..Len(segs) |-> <<47>> \o segs[i]])

\* C16: for every base URL (with or without a slash at its end) and every
\* endpoint (with or without a slash at its start), the path of the URL of
\* the request is the segments of the base's path, then the segments of the
\* endpoint, each once and in order, with one slash before each; and with
\* the default base URL, ListExchangeRates for USDT asks for
\* /v1/exchange-rate/USDT/list.
C16_JoinedPath ==
    call.op \in DomainOps =>
        \A i \in 1..Len(call.sent) :
            /\ call.sent[i].url =
                  baseURL.origin \o
                  EscapePath(Slashed(Segments(baseURL.path)
                                     \o Segments(EndpointOf(call.op, call.arg))))
            /\ ( /\ call.op \in {"ListExchangeRates1", "ListExchangeRates2",
                                  "ListExchangeRates3"}
                 /\ baseURL = BaseURL
                 /\ call.arg = s_USDT ) =>
                   call.sent[i].url =
                     s_origin \o s_v1path \o <<47>> \o s_exchPrefix3 \o s_USDT \o s_exchSuffix

(***************************************************************************)
(* The fields of the client.                                               *)
(***************************************************************************)

\* C17: no step changes the merchant id, the payment key or the payout key
\* New set; a step that changes the base URL (SetBaseURL) changes nothing
\* else; and a call of a domain operation or of VerifySign leaves every
\* field of the client as it was.
C17_ClientFrame ==
    [][ /\ UNCHANGED <<merchantID, paymentApiKey, payoutApiKey>>
        /\ baseURL' # baseURL => UNCHANGED <<rev, call>>
        /\ (call' # call /\ call'.op \in DomainOps \cup {"VerifySign"}) =>
              UNCHANGED client ]_vars

\* After SetBaseURL gave the client another base URL, CancelRecurrence
\* succeeded on a client with a merchant id and both keys.
C17_Witness ==
    /\ baseURL # BaseURL
    /\ call.op = "CancelRecurrence"
    /\ call.err = NoErr
    /\ merchantID = s_m1
    /\ paymentApiKey = s_k1
    /\ payoutApiKey = s_k2

(***************************************************************************)
(* A client with no payment key.                                           *)
(***************************************************************************)

\* The argument of the call passes the checks the operation makes before it
\* calls fetch.
PassesLocalChecks ==
    CASE call.op = "CreateRecurrence" -> ~call.arg.nil
      [] call.op \in {"GetRecurrenceInfo", "CancelRecurrence"} ->
           ~call.arg.nil /\ ~(call.arg.v.UUID = <<>> /\ call.arg.v.OrderId = <<>>)
      [] call.op = "ListRecurrences" -> TRUE
      [] call.op = "ListExchangeRates1" -> call.arg # <<>>
      [] OTHER -> TrimSpace(call.arg) # <<>>

C19_ResultXorError ==
    call.op \in DomainOps => ((call.err = NoErr) <=> ~call.result.nil)

====
